---------------------------- MODULE Spec2Model ----------------------------
(***************************************************************************)
(* The two sandbox templates of the repository:                            *)
(*   sandbox-templates/gradio-developer/app.py     (Gradio Blocks app)     *)
(*   sandbox-templates/streamlit-developer/app.py  (Streamlit script)      *)
(*                                                                         *)
(* Text is a sequence of one-character strings.  The character U+2728      *)
(* (sparkles) cannot be written in a TLA+ string and is the token SPARKLES.*)
(* A number is a record: a finite value is num/Scale (fixed point, so that *)
(* fractional slider positions exist), and the non-finite floats are kinds *)
(* of their own.                                                           *)
(***************************************************************************)
EXTENDS Integers, Sequences, FiniteSets, TLC

VARIABLES
    name,        \* value of the "Your Name" textbox            (gradio)
    intensity,   \* value of the "Intensity Level" slider       (gradio)
    output,      \* value of the "Generated Greeting" textbox   (gradio)
    submitted,   \* history: the inputs the last click read
    last,        \* history: the last event of the Gradio app
    st_page,     \* elements on the Streamlit page after the last script run
    call         \* a direct call of greet: arguments and outcome

vars == <<name, intensity, output, submitted, last, st_page, call>>

-----------------------------------------------------------------------------
(* Bounds of the model *)

\* finite numbers are multiples of 1/Scale
Scale == 2
\* longest name the user types into the app
MaxTyped == 1
\* longest name passed to a direct call of greet
MaxNameLen == 3
\* direct calls of greet take finite intensities in [-MaxAbs, MaxAbs]
MaxAbs == 12

(* Program constants *)

SliderMin == 1
SliderMax == 10
SliderValue == 5

-----------------------------------------------------------------------------
(* Text *)

SPARKLES == "U+2728"

Alphabet == {"A", "v", "a"}

RECURSIVE TextsUpTo(_)
TextsUpTo(n) ==
    IF n = 0 THEN {<<>>}
    ELSE LET shorter == TextsUpTo(n - 1)
         IN  shorter \cup {Append(t, c) : t \in shorter, c \in Alphabet}

\* str * k of Python: k copies of str, none when k <= 0
RECURSIVE Repeat(_, _)
Repeat(str, k) == IF k <= 0 THEN <<>> ELSE str \o Repeat(str, k - 1)

-----------------------------------------------------------------------------
(* Numbers *)

Num(n)  == [kind |-> "finite", num |-> n]
Whole(i) == Num(i * Scale)
PosInf  == [kind |-> "inf", num |-> 1]
NegInf  == [kind |-> "inf", num |-> -1]
NaN     == [kind |-> "nan", num |-> 0]

Return(v) == [tag |-> "return", val |-> v, exc |-> "none"]
Raise(e)  == [tag |-> "raise", val |-> <<>>, exc |-> e]
Pending   == [tag |-> "pending", val |-> <<>>, exc |-> "none"]

\* int(x) of Python on a float: the integer part (toward zero) of a finite
\* value, OverflowError on an infinity, ValueError on a NaN
intRounds(x) ==
    CASE x.kind = "finite" ->
            Return(IF x.num >= 0 THEN (2 * x.num + Scale) \div (2 * Scale)
                                 ELSE -((2 * (-x.num) + Scale) \div (2 * Scale)))
      [] x.kind = "inf" -> Raise("OverflowError")
      [] x.kind = "nan" -> Raise("ValueError")

int(x) ==
    CASE x.kind = "finite" ->
            Return(IF x.num >= 0 THEN x.num \div Scale
                                 ELSE -((-x.num) \div Scale))
      [] x.kind = "inf" -> Raise("OverflowError")
      [] x.kind = "nan" -> Raise("ValueError")

-----------------------------------------------------------------------------
(* gradio-developer/app.py *)

\* return "<sparkles> " + "Hello, " + name + "!" * int(intensity)
greetOneFewer(n, i) ==
    LET k == int(i)
    IN  IF k.tag = "raise" THEN k
        ELSE Return(<<SPARKLES, " ">> \o <<"H", "e", "l", "l", "o", ",", " ">>
                    \o n \o Repeat(<<"!">>, k.val - 1))

greet(n, i) ==
    LET k == int(i)
    IN  IF k.tag = "raise" THEN k
        ELSE Return(<<SPARKLES, " ">> \o <<"H", "e", "l", "l", "o", ",", " ">>
                    \o n \o Repeat(<<"!">>, k.val))

\* The textboxes: name takes the user's typing, output is interactive=False
interactiveAll == [name |-> TRUE, output |-> TRUE]

interactive == [name |-> TRUE, output |-> FALSE]

\* What one keystroke makes of a text: a character more, or one fewer
Typed(t) ==
    {Append(t, c) : c \in {d \in Alphabet : Len(t) < MaxTyped}}
        \cup {SubSeq(t, 1, Len(t) - 1) : x \in {y \in {0} : Len(t) > 0}}

\* The positions of gr.Slider(1, 10, value=5)
SliderPositions == {Num(n) : n \in (SliderMin * Scale)..(SliderMax * Scale)}

NoSubmit == [done |-> FALSE, name |-> <<>>, intensity |-> Num(0)]

Idle == [name |-> <<>>, intensity |-> Num(0), result |-> Pending]

\* The user types in a textbox that takes input
textbox_input ==
    \E box \in {"name", "output"} :
        /\ interactive[box]
        /\ \E t \in Typed(IF box = "name" THEN name ELSE output) :
              /\ name' = (IF box = "name" THEN t ELSE name)
              /\ output' = (IF box = "output" THEN t ELSE output)
        /\ last' = "input"
        /\ UNCHANGED <<intensity, submitted, st_page, call>>

\* The user moves the slider
slider_release ==
    /\ \E v \in SliderPositions \ {intensity} : intensity' = v
    /\ last' = "release"
    /\ UNCHANGED <<name, output, submitted, st_page, call>>

\* submit_btn.click(fn=greet, inputs=[name, intensity], outputs=output)
submit_btn_click_appends ==
    LET r == greet(name, intensity)
    IN  /\ r.tag = "return"
        /\ output' = output \o r.val
        /\ submitted' = [done |-> TRUE, name |-> name, intensity |-> intensity]
        /\ last' = (IF last \in {"click", "click_again"} THEN "click_again"
                                                         ELSE "click")
        /\ UNCHANGED <<name, intensity, st_page, call>>

submit_btn_click_clears ==
    LET r == greet(name, intensity)
    IN  /\ r.tag = "return"
        /\ output' = r.val
        /\ name' = <<>>
        /\ submitted' = [done |-> TRUE, name |-> name, intensity |-> intensity]
        /\ last' = (IF last \in {"click", "click_again"} THEN "click_again"
                                                         ELSE "click")
        /\ UNCHANGED <<intensity, st_page, call>>

submit_btn_click ==
    LET r == greet(name, intensity)
    IN  /\ r.tag = "return"
        /\ output' = r.val
        /\ submitted' = [done |-> TRUE, name |-> name, intensity |-> intensity]
        /\ last' = (IF last \in {"click", "click_again"} THEN "click_again"
                                                         ELSE "click")
        /\ UNCHANGED <<name, intensity, st_page, call>>

-----------------------------------------------------------------------------
(* streamlit-developer/app.py *)

\* What one run of the script puts on the page, top to bottom.  The style
\* sheet is one token: nothing reads it.
st_script ==
    << [kind |-> "markdown", body |-> <<"<style>...</style>">>],
       [kind |-> "title",
        body |-> <<SPARKLES, " ", "B", "e", "a", "u", "t", "i", "f", "u", "l",
                   " ", "S", "t", "r", "e", "a", "m", "l", "i", "t", " ",
                   "A", "p", "p">>],
       [kind |-> "markdown",
        body |-> <<"#", "#", "#", " ", "W", "e", "l", "c", "o", "m", "e", " ",
                   "t", "o", " ", "y", "o", "u", "r", " ", "s", "t", "u", "n",
                   "n", "i", "n", "g", " ", "a", "p", "p", "l", "i", "c", "a",
                   "t", "i", "o", "n">>] >>

\* A browser session loads the page: the script runs
st_run ==
    /\ st_page' = st_script
    /\ UNCHANGED <<name, intensity, output, submitted, last, call>>

-----------------------------------------------------------------------------
(* The applications *)

Init ==
    /\ name = <<>>
    /\ intensity = Whole(SliderValue)
    /\ output = <<>>
    /\ submitted = NoSubmit
    /\ last = "launch"
    /\ st_page = <<>>
    /\ call = Idle

\* demo.launch(): the Gradio app serves its events
Next ==
    \/ textbox_input
    \/ slider_release
    \/ submit_btn_click

Spec == Init /\ [][Next]_vars

\* The two templates, each serving its own page
NextTemplates ==
    \/ textbox_input
    \/ slider_release
    \/ submit_btn_click
    \/ st_run

SpecTemplates == Init /\ [][NextTemplates]_vars

-----------------------------------------------------------------------------
(* greet called directly, on any name and any number *)

Numbers ==
    {Num(n) : n \in (-(MaxAbs * Scale))..(MaxAbs * Scale)} \cup {PosInf, NegInf, NaN}

InitGreet ==
    /\ name = <<>>
    /\ intensity = Whole(SliderValue)
    /\ output = <<>>
    /\ submitted = NoSubmit
    /\ last = "launch"
    /\ st_page = <<>>
    /\ \E n \in TextsUpTo(MaxNameLen), v \in Numbers :
          call = [name |-> n, intensity |-> v, result |-> Pending]

greet_call ==
    /\ call.result.tag = "pending"
    /\ call' = [call EXCEPT !.result = greet(call.name, call.intensity)]
    /\ UNCHANGED <<name, intensity, output, submitted, last, st_page>>

NextGreet == greet_call

SpecGreet == InitGreet /\ [][NextGreet]_vars

-----------------------------------------------------------------------------
(* The greeting as the specification words it, built without greet's code *)

HelloPrefix == <<SPARKLES, " ", "H", "e", "l", "l", "o", ",", " ">>

\* s is the prefix, then n, then exactly k exclamation marks
IsGreeting(s, n, k) ==
    /\ Len(s) = Len(HelloPrefix) + Len(n) + k
    /\ \A j \in 1..Len(HelloPrefix) : s[j] = HelloPrefix[j]
    /\ \A j \in 1..Len(n) : s[Len(HelloPrefix) + j] = n[j]
    /\ \A j \in 1..k : s[Len(HelloPrefix) + Len(n) + j] = "!"

\* s begins with the greeting's fixed prefix
StartsWithHello(s) ==
    /\ Len(s) >= Len(HelloPrefix)
    /\ \A j \in 1..Len(HelloPrefix) : s[j] = HelloPrefix[j]

\* trunc(v): the whole part of the finite number v, rounding toward zero
TruncOf(v) ==
    CHOOSE t \in (-(MaxAbs + 1))..(MaxAbs + 1) :
        IF v.num >= 0
        THEN t >= 0 /\ t * Scale <= v.num /\ v.num < (t + 1) * Scale
        ELSE t <= 0 /\ t * Scale >= v.num /\ v.num > (t - 1) * Scale

MarksOf(v) == IF TruncOf(v) > 0 THEN TruncOf(v) ELSE 0

Called == call.result.tag /= "pending"

Clicked == last \in {"click", "click_again"}

-----------------------------------------------------------------------------
(* C1: for every name n and every whole intensity i in [1,10], greet(n, i)  *)
(* returns the sparkles prefix "Hello, ", then n, then exactly i            *)
(* exclamation marks; ("Ava", 3) gives "<sparkles> Hello, Ava!!!" and       *)
(* ("", 1) gives "<sparkles> Hello, !".  Checked under SpecGreet.           *)
C1_GreetText ==
    /\ \A i \in 1..10 :
          (Called /\ call.intensity = Whole(i)) =>
              /\ call.result.tag = "return"
              /\ IsGreeting(call.result.val, call.name, i)
    /\ (Called /\ call.name = <<"A", "v", "a">> /\ call.intensity = Whole(3)) =>
          call.result.val = <<SPARKLES, " ", "H", "e", "l", "l", "o", ",", " ",
                              "A", "v", "a", "!", "!", "!">>
    /\ (Called /\ call.name = <<>> /\ call.intensity = Whole(1)) =>
          call.result.val = <<SPARKLES, " ", "H", "e", "l", "l", "o", ",", " ",
                              "!">>

\* greet("Ava", 3) has returned its greeting
C1_Witness ==
    /\ call.name = <<"A", "v", "a">>
    /\ call.intensity = Whole(3)
    /\ call.result.tag = "return"
    /\ Len(call.result.val) = 15

-----------------------------------------------------------------------------
(* C3 as written: both templates bind submit to the greeting, so once the   *)
(* Gradio app has written a greeting and the Streamlit script has run, the  *)
(* Streamlit page shows that same greeting.                                 *)
C3_BothTemplatesGreet ==
    (Clicked /\ st_page /= <<>>) =>
        /\ IsGreeting(output, name, MarksOf(intensity))
        /\ \E k \in 1..Len(st_page) : st_page[k].body = output

(* C3 amended: only the Gradio template binds submit to greet: right after  *)
(* a click with name n and whole intensity i in [1,10] its output is the    *)
(* prefix, n and i marks.  The Streamlit template has no input, button or   *)
(* output: its page is empty or its fixed style sheet, title and heading,   *)
(* and never shows a greeting.                                              *)
C3_OnlyGradioGreets ==
    /\ \A i \in 1..10 :
          (Clicked /\ intensity = Whole(i)) => IsGreeting(output, name, i)
    /\ Len(st_page) \in {0, 3}
    /\ \A k \in 1..Len(st_page) :
          /\ st_page[k].kind \in {"markdown", "title"}
          /\ ~StartsWithHello(st_page[k].body)

\* both templates have served: a greeting in Gradio, a page in Streamlit
C3_Witness ==
    /\ last = "click"
    /\ name = <<"A">>
    /\ intensity = Whole(3)
    /\ output = <<SPARKLES, " ", "H", "e", "l", "l", "o", ",", " ", "A",
                  "!", "!", "!">>
    /\ Len(st_page) = 3

-----------------------------------------------------------------------------
(* C4: a click on unchanged inputs leaves the output as the click before    *)
(* left it: when the inputs are the ones the last click read, and in        *)
(* particular when a click follows a click, the output does not change.     *)
C4_Idempotent ==
    [][ /\ last' \in {"click", "click_again"}
        /\ submitted.done
        /\ submitted.name = name
        /\ submitted.intensity = intensity
        => output' = output ]_vars

\* a second click in a row has been served, with a greeting in the output
C4_Witness ==
    /\ last = "click_again"
    /\ name = <<"v">>
    /\ IsGreeting(output, name, MarksOf(intensity))

-----------------------------------------------------------------------------
(* C8: a click leaves name and intensity as they were and writes the        *)
(* output only; what it writes is the greeting of the two input values,     *)
(* whatever the output held before.                                         *)
C8_ClickFrame ==
    [][ last' \in {"click", "click_again"} =>
            /\ name' = name
            /\ intensity' = intensity
            /\ IsGreeting(output', name, MarksOf(intensity))
            /\ UNCHANGED <<st_page, call>> ]_vars

\* a click was served on a fractional slider position
C8_Witness ==
    /\ last = "click"
    /\ name = <<"a">>
    /\ intensity = Num(7 * Scale + 1)
    /\ IsGreeting(output, name, 7)

-----------------------------------------------------------------------------
(* C9: the output of the Gradio app is empty until the first click and      *)
(* from then on the greeting of the name and intensity the last click read, *)
(* whatever was typed or slid since; nothing else writes it.                *)
C9_OutputIsLastGreeting ==
    IF submitted.done
    THEN IsGreeting(output, submitted.name, MarksOf(submitted.intensity))
    ELSE output = <<>>

\* the inputs were edited after a click and the output kept the old greeting
C9_Witness ==
    /\ submitted.done
    /\ last \in {"input", "release"}
    /\ submitted.name /= name
    /\ MarksOf(submitted.intensity) /= MarksOf(intensity)
    /\ IsGreeting(output, submitted.name, MarksOf(submitted.intensity))

-----------------------------------------------------------------------------
(* C10 as written: greet never raises on a number, and appends              *)
(* max(0, trunc(v)) exclamation marks.  Checked under SpecGreet.            *)
C10_NeverRaises ==
    Called =>
        /\ call.result.tag = "return"
        /\ call.intensity.kind = "finite" =>
              IsGreeting(call.result.val, call.name, MarksOf(call.intensity))

(* C10 amended: greet checks neither bounds nor integrality: on every       *)
(* finite number v it returns, with max(0, trunc(v)) exclamation marks      *)
(* after the name (5 for 5.9, none for 0 or below); on an infinity or a     *)
(* NaN its int() raises OverflowError or ValueError.                        *)
C10_FiniteTruncates ==
    Called =>
        CASE call.intensity.kind = "finite" ->
                /\ call.result.tag = "return"
                /\ IsGreeting(call.result.val, call.name, MarksOf(call.intensity))
          [] call.intensity.kind = "inf" ->
                /\ call.result.tag = "raise"
                /\ call.result.exc = "OverflowError"
          [] call.intensity.kind = "nan" ->
                /\ call.result.tag = "raise"
                /\ call.result.exc = "ValueError"

\* greet returned on the largest fraction below 6, with five marks
C10_Witness ==
    /\ call.intensity = Num(6 * Scale - 1)
    /\ call.name = <<"A", "v">>
    /\ call.result.tag = "return"
    /\ Len(call.result.val) = 16

=============================================================================
